---- MODULE Spec2Model ----
(***************************************************************************)
(* Model of the metasched executor runtime: the protocol graphs submitted  *)
(* to src/src/executor.py, the constraint model built by                   *)
(* src/src/optimizer.py, and the time-ordered wait queue of                *)
(* src/src/awaitlist.py with its single consumer, Executor.loop.           *)
(*                                                                         *)
(* Wall-clock instants are counted in ticks; Res ticks make one second.    *)
(* The optimizer works in whole seconds relative to the reference instant  *)
(* (int(...total_seconds())), so its truncation is visible in the model.   *)
(***************************************************************************)
EXTENDS Integers, Sequences, FiniteSets, TLC

VARIABLES
    now,          \* datetime.now(), in ticks
    graph,        \* the nodes at hand: their post_node lists and Delay fields
    protocols,    \* Executor.protocols: the submitted Start nodes, in order
    scheduled,    \* Protocol.scheduled_time of every Protocol node
    started,      \* Protocol.started_time
    finished,     \* Protocol.finished_time
    tasks,        \* AwaitList.tasks
    pc,           \* where the consumer Executor.loop stands
    current,      \* the ATask handed to process_task
    sleepUntil,   \* the instant the consumer's wait_for times out at
    notified,     \* condition.notify_all() reached the waiting consumer
    fresh,        \* the plan is as the last successful optimize left it
    lastTok,      \* id of the token the last successful optimize enqueued
    driverCalls,  \* how often the driver was invoked for each Protocol
    driverFailed, \* a driver call has raised
    clientAdds,   \* tokens that clients added to the await-list themselves
    lockHeld,     \* the Lock of AwaitList.condition is held across a suspension
    lockq,        \* Lock._waiters: the coroutines queued on the lock, in order
    cancelOk,     \* contents of the tokens for which cancel_task returned True
    marged,       \* the Starts whose children's pre_node is a marged_protocol
    saved,        \* the snapshot json_storage.save wrote last
    raised        \* the exception the last call into the Executor ended with

vars == <<now, graph, protocols, scheduled, started, finished, tasks, pc,
          current, sleepUntil, notified, fresh, lastTok, driverCalls,
          driverFailed, clientAdds, lockHeld, lockq, cancelOk, marged, saved,
          raised>>

(* the state of the lock and of the clients of the await-list *)
awvars == <<lockHeld, lockq, cancelOk>>

(* what an Executor call leaves behind besides the plan and the tokens *)
exvars == <<marged, saved, raised>>

----------------------------------------------------------------------------
(* Bounds of the model *)

MaxTime == 7        \* the clock stops advancing at this tick
Res == 2            \* ticks per second
MaxClientAdds == 2  \* tokens that clients add to the await-list themselves

(* None, for an optional datetime or an absent token *)
NoTime == -1

----------------------------------------------------------------------------
(* The graphs that are submitted. A world is the pair of Start-rooted       *)
(* graphs S1 and S2 a run has at hand, with the fields of their Delays.    *)

Starts == {"S1", "S2"}
Protocols == {"A", "B", "X"}
Delays == {"D1", "D2"}
Nodes == Starts \cup Protocols \cup Delays

(* the fields a Delay is constructed with: duration, from_type, offset *)
DelayFields ==
    { [duration |-> 0, from_type |-> "START",  offset |-> 0],
      [duration |-> 0, from_type |-> "FINISH", offset |-> 0],
      [duration |-> 1, from_type |-> "START",  offset |-> 0],
      [duration |-> 1, from_type |-> "FINISH", offset |-> 0],
      [duration |-> 1, from_type |-> "FINISH", offset |-> 0 - 2] }

Sec1Finish == [duration |-> 1, from_type |-> "FINISH", offset |-> 0]
Sec1Start == [duration |-> 1, from_type |-> "START", offset |-> 0]

(* S1 > A > B, and S2 without post_node *)
Chain ==
    [n \in Nodes |->
        CASE n = "S1" -> <<"A">>
          [] n = "A"  -> <<"B">>
          [] OTHER    -> <<>>]

(* S1 > A > D1 > B, and S2 without post_node *)
Delayed ==
    [n \in Nodes |->
        CASE n = "S1" -> <<"A">>
          [] n = "A"  -> <<"D1">>
          [] n = "D1" -> <<"B">>
          [] OTHER    -> <<>>]

(* S1 > A, and S2 without post_node *)
Single ==
    [n \in Nodes |->
        CASE n = "S1" -> <<"A">>
          [] OTHER    -> <<>>]

(* S1 > A and S2 > A: the second graph holds a node of the first *)
Shared ==
    [n \in Nodes |->
        CASE n = "S1" -> <<"A">>
          [] n = "S2" -> <<"A">>
          [] OTHER    -> <<>>]

(* S1 > A and S2 > X *)
Two ==
    [n \in Nodes |->
        CASE n = "S1" -> <<"A">>
          [] n = "S2" -> <<"X">>
          [] OTHER    -> <<>>]

(* S1 > A and S2 > D2 > X *)
StartDelayed ==
    [n \in Nodes |->
        CASE n = "S1" -> <<"A">>
          [] n = "S2" -> <<"D2">>
          [] n = "D2" -> <<"X">>
          [] OTHER    -> <<>>]

(* S1 > A > D1 > B and S2 > X *)
Full ==
    [n \in Nodes |->
        CASE n = "S1" -> <<"A">>
          [] n = "A"  -> <<"D1">>
          [] n = "D1" -> <<"B">>
          [] n = "S2" -> <<"X">>
          [] OTHER    -> <<>>]

RECURSIVE ConcatAll(_)
ConcatAll(ss) == IF ss = <<>> THEN <<>> ELSE Head(ss) \o ConcatAll(Tail(ss))

(* Node.flatten over the post_node lists po: pre-order, the node first *)
RECURSIVE flatten_of(_, _)
flatten_of(po, n) ==
    <<n>> \o ConcatAll([i \in 1..Len(po[n]) |-> flatten_of(po, po[n][i])])

(* Node.add: other.pre_node = self; "" stands for None *)
pre_node_of(po, n) ==
    IF \E m \in Nodes : \E i \in 1..Len(po[m]) : po[m][i] = n
    THEN CHOOSE m \in Nodes : \E i \in 1..Len(po[m]) : po[m][i] = n
    ELSE ""

(* a world whose Protocols have the durations durs, in seconds *)
WorldOf(po, fields, durs) ==
    [post_node |-> po,
     pre_node |-> [n \in Nodes |-> pre_node_of(po, n)],
     flatten |-> [n \in Nodes |-> flatten_of(po, n)],
     delay |-> [d \in Delays |-> fields],
     duration |-> durs]

World(po, fields) == WorldOf(po, fields, [p \in Protocols |-> 1])

Worlds ==
    { World(po, Sec1Start) : po \in {Single, Shared, Chain, Two, StartDelayed} }
    \cup { World(Delayed, f) : f \in DelayFields }
    \cup { World(Full, Sec1Finish) }

(* the nodes as the run's graphs have them *)
post_node(n) == graph.post_node[n]
pre_node(n) == graph.pre_node[n]
flatten(n) == graph.flatten[n]

(* Protocol.duration, in seconds *)
duration(p) == graph.duration[p]

(* the fields of the Delay d *)
delays(d) == graph.delay[d]

----------------------------------------------------------------------------
(* src/src/optimizer.py *)

RECURSIVE SumSeq(_)
SumSeq(s) == IF s = <<>> THEN 0 ELSE Head(s) + SumSeq(Tail(s))

Max(S) == CHOOSE x \in S : \A y \in S : y <= x
Min(S) == CHOOSE x \in S : \A y \in S : x <= y

(* int(x / y), truncating toward zero as Python's int() does *)
IntDiv(x, y) == IF x >= 0 THEN x \div y ELSE 0 - ((0 - x) \div y)

SeqToSet(s) == {s[i] : i \in 1..Len(s)}

(* flatten() of the merged Start that Executor.optimize builds, without the *)
(* synthetic root: the children of every submitted Start, in order         *)
merged_nodes(prots) ==
    ConcatAll([i \in 1..Len(prots) |-> Tail(flatten(prots[i]))])

protocol_nodes(prots) ==
    SelectSeq(merged_nodes(prots), LAMBDA n : n \in Protocols)

delay_nodes(prots) ==
    SelectSeq(merged_nodes(prots), LAMBDA n : n \in Delays)

(* sum_durations: seconds of every Protocol and Delay of the graph *)
sum_durations(prots) ==
    LET ns == merged_nodes(prots)
    IN  SumSeq([i \in 1..Len(ns) |->
                  IF ns[i] \in Protocols THEN duration(ns[i])
                  ELSE delays(ns[i]).duration])

(* get_oldest_time: the earliest started_time, or now when there is none *)
get_oldest_time(prots, st, nw) ==
    LET ts == {st[p] : p \in {q \in SeqToSet(protocol_nodes(prots)) :
                                  st[q] # NoTime}}
        min_time == IF ts = {} THEN 0 ELSE Min(ts)
    IN  IF min_time = 0 THEN nw ELSE min_time

(* a conversion that rounds a fraction of a second up *)
time_to_seconds_ceil(t, t0) == IntDiv(t - t0 + Res - 1, Res)

(* TimeSecondsConverter, followed by the int() of protocol_to_opt *)
time_to_seconds(t, t0) == IntDiv(t - t0, Res)
seconds_to_time(s, t0) == t0 + s * Res

(* Protocol.set_vars: the value of finish_time once start_time is s *)
finish_of(p, s, st, fi, t0) ==
    IF st[p] # NoTime /\ fi[p] # NoTime
    THEN time_to_seconds(fi[p], t0)
    ELSE s + duration(p)

(* Protocol.set_vars: the Protocol has an IntervalVar *)
has_interval(p, st, fi) == ~(st[p] # NoTime /\ fi[p] # NoTime)

(* set_vars without the equality that pins a started Protocol *)
set_vars_unpinned(p, s, st, fi, t0, max_time) ==
    /\ s \in 0..max_time
    /\ finish_of(p, s, st, fi, t0) \in 0..max_time

(* Protocol.set_vars: domains of the variables and the observed facts *)
set_vars(p, s, st, fi, t0, max_time) ==
    /\ s \in 0..max_time
    /\ finish_of(p, s, st, fi, t0) \in 0..max_time
    /\ st[p] # NoTime => s = time_to_seconds(st[p], t0)

(* no_overlap without its constraint, as if line 201 were missing *)
no_overlap_dropped(p, s, q, r) == TRUE

(* AddNoOverlap over the intervals of two Protocols *)
no_overlap(p, s, q, r) ==
    \/ s + duration(p) <= r
    \/ r + duration(q) <= s

(* order without its constraint, as if lines 204-208 were missing *)
order_dropped(p, s, f, st, fi, t0) == TRUE

(* the order constraint: node.finish_time <= post_node.start_time for a    *)
(* Protocol that is the post_node of a Protocol                            *)
order(p, s, f, st, fi, t0) ==
    pre_node(p) \in Protocols =>
        finish_of(pre_node(p), f[pre_node(p)], st, fi, t0) <= s

(* the loss counted from pre_node.start_time in place of finish_time *)
loss_value_from_start(d, p, s, f, st, fi, t0) ==
    (s - f[pre_node(d)]) - (delays(d).duration + delays(d).offset)

(* Delay.set_loss: the value the constraints give loss for post_node p     *)
(* starting at s; the anchor is pre_node.finish_time for either from_type  *)
loss_value(d, p, s, f, st, fi, t0) ==
    (s - finish_of(pre_node(d), f[pre_node(d)], st, fi, t0))
        - (delays(d).duration + delays(d).offset)

(* Delay.set_loss: loss is an IntVar in 0..duration*2, tied to the gap     *)
(* only when pre_node is a Protocol                                        *)
set_loss(p, s, f, st, fi, t0) ==
    LET d == pre_node(p)
    IN  (d \in Delays /\ pre_node(d) \in Protocols) =>
            loss_value(d, p, s, f, st, fi, t0) \in 0..(delays(d).duration * 2)

(* every assignment of start_time to the first k Protocols that meets the  *)
(* constraints among them                                                  *)
RECURSIVE Assignments(_, _, _, _, _, _)
Assignments(ps, k, st, fi, t0, max_time) ==
    IF k = 0 THEN { [x \in {} |-> 0] }
    ELSE LET p == ps[k]
             prev == Assignments(ps, k - 1, st, fi, t0, max_time)
         IN  UNION { { f @@ (p :> s) :
                         s \in { r \in 0..max_time :
                            /\ set_vars(p, r, st, fi, t0, max_time)
                            /\ order(p, r, f, st, fi, t0)
                            /\ set_loss(p, r, f, st, fi, t0)
                            /\ \A j \in 1..(k - 1) :
                                 (has_interval(p, st, fi)
                                    /\ has_interval(ps[j], st, fi))
                                 => no_overlap(p, r, ps[j], f[ps[j]]) } }
                     : f \in prev }

(* makespan + sum(losses) at its least value for the assignment f *)
objective(ps, ds, f, st, fi, t0) ==
    LET fins == {finish_of(ps[i], f[ps[i]], st, fi, t0) : i \in 1..Len(ps)}
        makespan == IF fins = {} THEN 0 ELSE Max(fins \cup {0})
        losses == [i \in 1..Len(ds) |->
                     IF pre_node(ds[i]) \in Protocols /\ post_node(ds[i]) # <<>>
                     THEN LET c == post_node(ds[i])[1]
                          IN  loss_value(ds[i], c, f[c], f, st, fi, t0)
                     ELSE 0]
    IN  makespan + SumSeq(losses)

(* optimize_schedule: the assignments the solver can report as OPTIMAL;    *)
(* none when the model is infeasible (an IntVar with an empty domain too)  *)
optimize_schedule(prots, st, fi, nw) ==
    LET ps == protocol_nodes(prots)
        ds == delay_nodes(prots)
        max_time == sum_durations(prots)
        t0 == get_oldest_time(prots, st, nw)
        feasible ==
            IF \/ max_time < 0
               \/ \E i \in 1..Len(ds) : delays(ds[i]).duration * 2 < 0
            THEN {}
            ELSE Assignments(ps, Len(ps), st, fi, t0, max_time)
        best == Min({objective(ps, ds, f, st, fi, t0) : f \in feasible})
    IN  {f \in feasible : objective(ps, ds, f, st, fi, t0) = best}

(* the write loop of lines 218-224 stopped after its first node *)
write_schedule_partial(prots, sch, st, nw, f) ==
    LET t0 == get_oldest_time(prots, st, nw)
        ps == protocol_nodes(prots)
    IN  [p \in Protocols |->
            IF ps # <<>> /\ p = ps[1] THEN seconds_to_time(f[p], t0)
            ELSE sch[p]]

(* the times of the solution counted from the instant of the call *)
write_schedule_from_now(prots, sch, st, nw, f) ==
    [p \in Protocols |->
        IF p \in DOMAIN f THEN seconds_to_time(f[p], nw) ELSE sch[p]]

(* the scheduled_time the solution f writes on the nodes (lines 217-224)   *)
write_schedule(prots, sch, st, nw, f) ==
    LET t0 == get_oldest_time(prots, st, nw)
    IN  [p \in Protocols |->
            IF p \in DOMAIN f THEN seconds_to_time(f[p], t0) ELSE sch[p]]

----------------------------------------------------------------------------
(* src/src/awaitlist.py *)

NoTask == [execution_time |-> NoTime, id |-> NoTime, content |-> ""]

(* uuid.uuid4(): an identifier no pending or in-process token carries *)
uuid4(ts, cur) ==
    Min({i \in 1..(Len(ts) + 2) :
            /\ i # cur.id
            /\ \A j \in 1..Len(ts) : ts[j].id # i})

(* append without the sort of line 53 *)
sorted_insert_unsorted(ts, t) == Append(ts, t)

(* list.sort(key=execution_time): stable, so the appended task goes behind *)
(* every task that is not later than it                                    *)
RECURSIVE sorted_insert(_, _)
sorted_insert(ts, t) ==
    IF ts = <<>> THEN <<t>>
    ELSE IF Head(ts).execution_time <= t.execution_time
         THEN <<Head(ts)>> \o sorted_insert(Tail(ts), t)
         ELSE <<t>> \o ts

(* AwaitList.add_task, lines 49-55 *)
add_task(ts, execution_time, content, id) ==
    sorted_insert(ts, [execution_time |-> execution_time, id |-> id,
                       content |-> content])

(* a cancel_task that deletes the head whatever the id *)
cancel_task_head(ts, id) == IF ts = <<>> THEN <<>> ELSE Tail(ts)

(* AwaitList.cancel_task: delete the first task with that id *)
RECURSIVE cancel_task(_, _)
cancel_task(ts, id) ==
    IF ts = <<>> THEN <<>>
    ELSE IF Head(ts).id = id THEN Tail(ts)
         ELSE <<Head(ts)>> \o cancel_task(Tail(ts), id)

(* Executor.optimize, lines 82-84: `for task in tasks` walks the list that *)
(* get_tasks returns, which is AwaitList.tasks itself, by index, while     *)
(* cancel_task deletes from it                                             *)
RECURSIVE cancel_loop(_, _)
cancel_loop(ts, i) ==
    IF i > Len(ts) THEN ts
    ELSE cancel_loop(cancel_task(ts, ts[i].id), i + 1)

(* optimize without its cancellation loop *)
cancel_all_skipped(ts) == ts

cancel_all(ts) == cancel_loop(ts, 1)

----------------------------------------------------------------------------
(* src/src/executor.py *)

(* the consumer is inside a run of code that has no suspension point *)
Busy == pc \in {"check", "yielded", "inspect", "wait", "woken"}

(* Executor.optimize, lines 87-94: the Protocols without started_time and  *)
(* the first of them with the least scheduled_time, None sorting last      *)
unstarted_unfiltered(prots, st) == protocol_nodes(prots)

unstarted(prots, st) ==
    SelectSeq(protocol_nodes(prots), LAMBDA p : st[p] = NoTime)

sort_key(sch, p) ==
    IF sch[p] = NoTime THEN MaxTime + MaxTime * Res * 8 ELSE sch[p]

(* the first unstarted Protocol in place of the earliest *)
next_protocol_first(prots, sch, st) == unstarted(prots, st)[1]

(* max in place of min *)
next_protocol_latest(prots, sch, st) ==
    LET us == unstarted(prots, st)
        i == Min({j \in 1..Len(us) :
                    \A k \in 1..Len(us) :
                        sort_key(sch, us[j]) >= sort_key(sch, us[k])})
    IN  us[i]

next_protocol(prots, sch, st) ==
    LET us == unstarted(prots, st)
        i == Min({j \in 1..Len(us) :
                    \A k \in 1..Len(us) :
                        sort_key(sch, us[j]) <= sort_key(sch, us[k])})
    IN  us[i]

(* no exception: the call returned *)
NoError == ""

(* nothing was saved yet *)
NoSnapshot == <<>>

(* NodeType.value of a node *)
node_type(n) ==
    IF n \in Starts THEN "plan_start"
    ELSE IF n \in Delays THEN "delay" ELSE "protocol"

(* Node.to_dict and its overrides: the node_type and the dictionaries of   *)
(* the children, for a Protocol its name and duration, for a Delay its     *)
(* duration, from_type and offset. No other field is written.              *)
RECURSIVE to_dict(_)
to_dict(n) ==
    LET base == [node_type |-> node_type(n),
                 post_node |-> [i \in 1..Len(post_node(n)) |->
                                    to_dict(post_node(n)[i])]]
    IN  IF n \in Protocols
        THEN [node_type |-> base.node_type, post_node |-> base.post_node,
              name |-> n, duration |-> duration(n)]
        ELSE IF n \in Delays
        THEN [node_type |-> base.node_type, post_node |-> base.post_node,
              duration |-> delays(n).duration,
              from_type |-> delays(n).from_type,
              offset |-> delays(n).offset]
        ELSE base

(* json.dump of a list: the text of the file, piece by piece *)
dump(data) == <<[token |-> "["]>> \o data \o <<[token |-> "]"]>>

(* the text is a whole JSON document: json.load accepts it *)
well_formed(text) ==
    /\ Len(text) >= 2
    /\ text[1] = [token |-> "["]
    /\ text[Len(text)] = [token |-> "]"]

(* json.load of a text it accepts *)
json_load(text) == SubSeq(text, 2, Len(text) - 1)

(* LocalJSONStorage.save(data) without a key: the file is named after the  *)
(* instant of the call and holds the text of the data. The caller does not *)
(* await anything until the file is closed.                                *)
save(data, nw) == [key |-> nw, data |-> dump(data)]

(* lines 72-74: marged_protocol > start.post_node makes marged_protocol    *)
(* the pre_node of the children of every submitted Start                   *)
marged_pre_node(prots) == {prots[i] : i \in 1..Len(prots)}

(* the loop of lines 77-79 left out: the children keep marged_protocol *)
reset_starts_skipped(prots) == marged_pre_node(prots)

(* lines 77-79: node.pre_node = start, once the optimizer has returned *)
reset_starts(prots) == marged_pre_node(prots) \ SeqToSet(prots)

(* Executor.optimize with the graphs prots and the observed times st, fi   *)
optimize(prots, st, fi) ==
    LET sols == optimize_schedule(prots, st, fi, now)
    IN  IF sols = {}
        THEN \* optimize_schedule raises: nothing below line 75 runs
             /\ fresh' = FALSE
             /\ marged' = marged_pre_node(prots)
             /\ raised' = "No optimal schedule found."
             /\ UNCHANGED <<scheduled, tasks, notified, lastTok, saved>>
        ELSE \E f \in sols :
             LET sch == write_schedule(prots, scheduled, st, now, f)
                 cancelled == cancel_all(tasks)
             IN  /\ scheduled' = sch
                 /\ fresh' = TRUE
                 /\ marged' = reset_starts(prots)
                 /\ raised' = NoError
                 /\ IF unstarted(prots, st) = <<>>
                    THEN /\ tasks' = cancelled
                         /\ lastTok' = NoTime
                         /\ notified' = (notified \/ tasks # <<>>)
                         /\ UNCHANGED saved
                    ELSE LET np == next_protocol(prots, sch, st)
                             id == uuid4(tasks, current)
                         IN  /\ tasks' = add_task(cancelled, sch[np], np, id)
                             /\ lastTok' = id
                             /\ notified' = TRUE
                             /\ saved' = save([i \in 1..Len(prots) |->
                                                  to_dict(prots[i])], now)

(* Executor.__init__ without a resume: nothing submitted, nothing queued *)
InitExecutor ==
    /\ now = 1
    /\ protocols = <<>>
    /\ scheduled = [p \in Protocols |-> NoTime]
    /\ started = [p \in Protocols |-> NoTime]
    /\ finished = [p \in Protocols |-> NoTime]
    /\ tasks = <<>>
    /\ pc = "idle"
    /\ current = NoTask
    /\ sleepUntil = NoTime
    /\ notified = FALSE
    /\ fresh = FALSE
    /\ lastTok = NoTime
    /\ driverCalls = [p \in Protocols |-> 0]
    /\ driverFailed = FALSE
    /\ clientAdds = 0
    /\ lockHeld = FALSE
    /\ lockq = <<>>
    /\ cancelOk = {}
    /\ marged = {}
    /\ saved = NoSnapshot
    /\ raised = NoError

Init ==
    /\ graph \in Worlds
    /\ InitExecutor

(* the clock advances while every task is suspended; it is read from the   *)
(* first operation on                                                      *)
Tick ==
    /\ ~Busy
    /\ pc # "idle" \/ protocols # <<>>
    /\ now < MaxTime
    /\ ~lockHeld /\ lockq = <<>>
    /\ now' = now + 1
    /\ UNCHANGED <<graph, protocols, scheduled, started, finished, tasks, pc,
                   current, sleepUntil, notified, fresh, lastTok, driverCalls,
                   driverFailed, clientAdds, awvars, exvars>>

(* no check of the identifiers *)
ids_collide_never(prots, g) == FALSE

(* Executor.add_protocol, lines 46-52: an identifier occurs twice among    *)
(* the nodes of the submitted graphs and of g                              *)
ids_collide(prots, g) ==
    LET all_ids == ConcatAll([i \in 1..Len(prots) |-> flatten(prots[i])])
                   \o flatten(g)
    IN  Len(all_ids) # Cardinality(SeqToSet(all_ids))

(* Executor.add_protocol *)
add_protocol(g) ==
    /\ ~Busy
    /\ IF g \notin Starts
       THEN /\ raised' = "Only Start protocol can be added"
            /\ UNCHANGED <<protocols, scheduled, tasks, notified, fresh,
                           lastTok, marged, saved>>
       ELSE IF ids_collide(protocols, g)
       THEN /\ raised' = "Protocol with the same ID already exists"
            /\ UNCHANGED <<protocols, scheduled, tasks, notified, fresh,
                           lastTok, marged, saved>>
       ELSE /\ protocols' = Append(protocols, g)
            /\ optimize(Append(protocols, g), started, finished)
    /\ UNCHANGED <<now, graph, started, finished, pc, current, sleepUntil,
                   driverCalls, driverFailed,
                   clientAdds, awvars>>

(* a direct call of Executor.optimize *)
call_optimize ==
    /\ ~Busy
    /\ optimize(protocols, started, finished)
    /\ UNCHANGED <<now, graph, protocols, started, finished, pc, current,
                   sleepUntil, driverCalls, driverFailed,
                   clientAdds, awvars>>

(* Executor.loop is called: the generator runs up to its first inspection *)
loop ==
    /\ pc = "idle"
    /\ pc' = "check"
    /\ UNCHANGED <<now, graph, protocols, scheduled, started, finished, tasks,
                   current, sleepUntil, notified, fresh, lastTok, driverCalls,
                   driverFailed, clientAdds, awvars, exvars>>

(* a loop that does not await process_task before it takes the next token *)
at_check_or_driver == pc \in {"check", "driver"}

(* the head is taken without a look at its time *)
head_present == tasks # <<>>

(* wait_for_next_task, lines 88-93: there is a task and its time has come *)
head_due == tasks # <<>> /\ Head(tasks).execution_time <= now

(* the consumer position at which the generator is asked for a token *)
at_check == pc = "check"

(* wait_for_next_task, lines 87-96: the head is due, it is removed and     *)
(* yielded                                                                 *)
wait_for_next_task_yield ==
    /\ at_check
    /\ head_due
    /\ current' = Head(tasks)
    /\ tasks' = Tail(tasks)
    /\ pc' = "yielded"
    /\ fresh' = FALSE
    /\ UNCHANGED <<now, graph, protocols, scheduled, started, finished,
                   sleepUntil, notified, lastTok, driverCalls, driverFailed,
                   clientAdds, awvars, exvars>>

(* wait_for_next_task, lines 98-114: nothing is due, wait on the condition *)
(* with the head's remaining time as timeout, or without one               *)
wait_for_next_task_sleep ==
    /\ pc = "check"
    /\ ~head_due
    /\ sleepUntil' = IF tasks = <<>> THEN NoTime ELSE Head(tasks).execution_time
    /\ notified' = FALSE
    /\ pc' = "waiting"
    /\ UNCHANGED <<now, graph, protocols, scheduled, started, finished, tasks,
                   current, fresh, lastTok, driverCalls, driverFailed,
                   clientAdds, awvars, exvars>>

(* condition.wait() returns, after a notify_all or on the timeout *)
wait_for_next_task_wake ==
    /\ pc = "waiting"
    /\ notified \/ (sleepUntil # NoTime /\ sleepUntil <= now)
    /\ pc' = "check"
    /\ notified' = FALSE
    /\ sleepUntil' = NoTime
    /\ UNCHANGED <<now, graph, protocols, scheduled, started, finished, tasks,
                   current, fresh, lastTok, driverCalls, driverFailed,
                   clientAdds, awvars, exvars>>

(* a process_task that runs the content of the token without the check of *)
(* lines 137-138                                                           *)
process_task_start_unchecked ==
    /\ pc = "yielded"
    /\ started' = [started EXCEPT ![current.content] = now]
    /\ driverCalls' = [driverCalls EXCEPT ![current.content] = @ + 1]
    /\ pc' = "driver"
    /\ fresh' = FALSE
    /\ UNCHANGED <<now, graph, protocols, scheduled, finished, tasks, current,
                   sleepUntil, notified, lastTok, driverFailed, clientAdds,
                   awvars, exvars>>

(* Executor.process_task up to the driver call, lines 131-144 *)
process_task_start ==
    /\ pc = "yielded"
    /\ IF current.content \in SeqToSet(protocol_nodes(protocols))
       THEN /\ started' = [started EXCEPT ![current.content] = now]
            /\ driverCalls' = [driverCalls EXCEPT ![current.content] = @ + 1]
            /\ pc' = "driver"
            /\ fresh' = FALSE
            /\ UNCHANGED raised
       ELSE \* lines 137-138
            /\ pc' = "dead"
            /\ fresh' = FALSE
            /\ raised' = "No protocol found for task"
            /\ UNCHANGED <<started, driverCalls>>
    /\ UNCHANGED <<now, graph, protocols, scheduled, finished, tasks, current,
                   sleepUntil, notified, lastTok, driverFailed, clientAdds,
                   awvars, marged, saved>>

(* the driver returns: Executor.process_task, lines 145-165 *)
process_task_finish ==
    /\ pc = "driver"
    /\ LET fi == [finished EXCEPT ![current.content] = now]
       IN  /\ finished' = fi
           /\ optimize(protocols, started, fi)
    /\ pc' = IF fresh' THEN "check" ELSE "dead"
    /\ current' = NoTask
    /\ UNCHANGED <<now, graph, protocols, started, sleepUntil, driverCalls,
                   driverFailed, clientAdds, awvars>>

(* a process_task that catches the driver's error and goes on to optimize *)
driver_raises_swallowed ==
    /\ pc = "driver"
    /\ driverFailed' = TRUE
    /\ optimize(protocols, started, finished)
    /\ pc' = "check"
    /\ current' = NoTask
    /\ UNCHANGED <<now, graph, protocols, started, finished, sleepUntil,
                   driverCalls, clientAdds, awvars>>

(* the driver raises: the error leaves process_task and loop *)
driver_raises ==
    /\ pc = "driver"
    /\ pc' = "dead"
    /\ driverFailed' = TRUE
    /\ fresh' = FALSE
    /\ current' = NoTask
    /\ raised' = "driver"
    /\ UNCHANGED <<now, graph, protocols, scheduled, started, finished, tasks,
                   sleepUntil, notified, lastTok, driverCalls, clientAdds,
                   awvars, marged, saved>>

(* a client adds a token through Executor.await_list: AwaitList.add_task  *)
(* without id                                                              *)
client_add_task(execution_time, content) ==
    /\ ~Busy
    /\ clientAdds < MaxClientAdds
    /\ clientAdds' = clientAdds + 1
    /\ tasks' = add_task(tasks, execution_time, content, uuid4(tasks, current))
    /\ notified' = TRUE
    /\ fresh' = FALSE
    /\ UNCHANGED <<now, graph, protocols, scheduled, started, finished, pc,
                   current, sleepUntil, lastTok, driverCalls, driverFailed,
                   awvars, exvars>>

(* the Starts the clients have not handed to add_protocol yet *)
NewStarts == Starts \ SeqToSet(protocols)

Next ==
    \/ Tick
    \/ \E g \in NewStarts : add_protocol(g)
    \/ loop
    \/ wait_for_next_task_yield
    \/ wait_for_next_task_sleep
    \/ wait_for_next_task_wake
    \/ process_task_start
    \/ process_task_finish
    \/ driver_raises

Spec == Init /\ [][Next]_vars

(* the executor with clients that also call Executor.optimize themselves *)
NextCalls == Next \/ call_optimize

SpecCalls == Init /\ [][NextCalls]_vars

(* what careless clients hand to add_protocol: the Starts, also those     *)
(* submitted before, and a node that is no Start                           *)
Submissions == Starts \cup {"A"}

(* the executor with clients that submit anything, any number of times *)
NextSubmit == Next \/ \E g \in Submissions : add_protocol(g)

InitSubmit == Init /\ graph.post_node \in {Single, Shared, Two}

SpecSubmit == InitSubmit /\ [][NextSubmit]_vars

(* the executor with clients that also add tokens to its await-list *)
NextDirect ==
    \/ Next
    \/ \E p \in Protocols : client_add_task(now, p)

InitDirect == Init /\ graph.post_node = Single

SpecDirect == InitDirect /\ [][NextDirect]_vars

----------------------------------------------------------------------------
(* Quantities the properties are stated in *)

Submitted == SeqToSet(protocol_nodes(protocols))

Running(p) == started[p] # NoTime /\ finished[p] = NoTime

(* the reference instant of the plan on the nodes: the earliest            *)
(* started_time, or with none the earliest scheduled_time, which differs   *)
(* from the instant the optimizer used by whole seconds                    *)
PlanT0 ==
    get_oldest_time(protocols, started,
        Min({scheduled[p] : p \in Submitted} \cup {MaxTime + MaxTime}))

(* start and finish of a Protocol in the plan, in seconds from PlanT0 *)
StartSec(p) == (scheduled[p] - PlanT0) \div Res
FinishSec(p) == finish_of(p, StartSec(p), started, finished, PlanT0)

(* the Delays of the submitted graphs that stand between two Protocols *)
InnerDelays ==
    {d \in SeqToSet(delay_nodes(protocols)) :
        pre_node(d) \in Protocols /\ post_node(d) # <<>>}

----------------------------------------------------------------------------
(* C1: while no driver call has failed, at no instant do two Protocol      *)
(* nodes of the submitted graphs both have started_time set and            *)
(* finished_time unset, wherever add_protocol calls arrive.                *)
C1_OneRunning ==
    ~driverFailed =>
        \A p, q \in Submitted : (Running(p) /\ Running(q)) => p = q

(* a graph was added while a driver call was in flight, and its token is   *)
(* due while the first Protocol is still running                           *)
C1_Witness ==
    /\ pc = "driver"
    /\ Len(protocols) = 2
    /\ head_due
    /\ Head(tasks).content # current.content
    /\ \E p \in Submitted : Running(p)

(* C2: while no driver call has failed, a Protocol that is the direct      *)
(* child of a Protocol never has started_time set before its parent has    *)
(* finished_time set, and the driver is not invoked for it before.         *)
C2_ChildAfterParent ==
    ~driverFailed =>
        \A c \in Submitted :
            (pre_node(c) \in Protocols
                /\ (started[c] # NoTime \/ driverCalls[c] > 0))
            => /\ finished[pre_node(c)] # NoTime
               /\ finished[pre_node(c)] <= started[c]

C2_Witness ==
    \E c \in Submitted :
        /\ pre_node(c) \in Protocols
        /\ started[c] # NoTime
        /\ finished[pre_node(c)] = started[c]

(* C3, as amended: after a successful optimize, any two distinct Protocols *)
(* of the combined plan of which neither is finished have intervals        *)
(* [start, start + duration) that do not overlap, where start is the       *)
(* scheduled_time that optimize wrote: for a running Protocol that is the  *)
(* reference instant plus its observed start offset in whole seconds.      *)
C3_NoOverlapScheduled ==
    fresh =>
        \A p, q \in Submitted :
            (p # q /\ finished[p] = NoTime /\ finished[q] = NoTime)
            => \/ scheduled[p] + duration(p) * Res <= scheduled[q]
               \/ scheduled[q] + duration(q) * Res <= scheduled[p]

(* a running Protocol that started within a second and an unstarted one   *)
(* scheduled right behind its interval                                     *)
C3_Witness ==
    /\ fresh
    /\ \E p, q \in Submitted :
          /\ Running(p) /\ started[q] = NoTime
          /\ scheduled[p] # started[p]
          /\ scheduled[p] + duration(p) * Res = scheduled[q]

(* C3 as claimed: the interval of a running Protocol begins at its         *)
(* observed started_time.                                                  *)
ObservedStart(p) == IF started[p] # NoTime THEN started[p] ELSE scheduled[p]

C3_NoOverlapObserved ==
    fresh =>
        \A p, q \in Submitted :
            (p # q /\ finished[p] = NoTime /\ finished[q] = NoTime)
            => \/ ObservedStart(p) + duration(p) * Res <= ObservedStart(q)
               \/ ObservedStart(q) + duration(q) * Res <= ObservedStart(p)

(* C4: after a successful optimize, for a Protocol child C of a Protocol   *)
(* parent P, P's finish (its observed finish offset if P is finished,      *)
(* else its start plus its declared duration) is at or before              *)
(* C.scheduled_time.                                                       *)
C4_Precedence ==
    fresh =>
        \A c \in Submitted :
            pre_node(c) \in Protocols => FinishSec(pre_node(c)) <= StartSec(c)

(* the parent finished within its declared duration and the child was     *)
(* scheduled again, at the parent's observed finish offset                 *)
C4_Witness ==
    /\ fresh
    /\ \E c \in Submitted :
          /\ pre_node(c) \in Protocols
          /\ finished[pre_node(c)] # NoTime
          /\ started[c] = NoTime
          /\ FinishSec(pre_node(c)) < duration(pre_node(c))
          /\ StartSec(c) = FinishSec(pre_node(c))

(* C5: after a successful optimize, for a Delay with duration d >= 0,      *)
(* offset o and from_type FINISH between a Protocol P and a Protocol C,    *)
(* the gap C.start - P.finish lies in [d + o, d + o + 2*d]; an optimize    *)
(* that finds no such assignment leaves no schedule behind.                *)
Gap(d) == StartSec(post_node(d)[1]) - FinishSec(pre_node(d))
Target(d) == delays(d).duration + delays(d).offset

C5_DelayRange ==
    fresh =>
        \A d \in InnerDelays :
            (delays(d).duration >= 0 /\ delays(d).from_type = "FINISH")
            => /\ Gap(d) >= Target(d)
               /\ Gap(d) <= Target(d) + 2 * delays(d).duration

(* the parent is finished, so the gap is counted from its observed finish  *)
(* offset, and the delay is not zero                                       *)
C5_Witness ==
    /\ fresh
    /\ \E d \in InnerDelays :
          /\ delays(d).from_type = "FINISH"
          /\ delays(d).duration > 0
          /\ finished[pre_node(d)] # NoTime
          /\ started[post_node(d)[1]] = NoTime

(* C6 as claimed: for a Delay with from_type START between a Protocol P    *)
(* and a Protocol C, the gap held to the target is C.start - P.start.      *)
C6_StartAnchored ==
    fresh =>
        \A d \in InnerDelays :
            (delays(d).duration >= 0 /\ delays(d).from_type = "START")
            => LET gap == StartSec(post_node(d)[1]) - StartSec(pre_node(d))
               IN  /\ gap >= Target(d)
                   /\ gap <= Target(d) + 2 * delays(d).duration

C9_AllCancelled ==
    fresh => \A i \in 1..Len(tasks) : tasks[i].id = lastTok

----------------------------------------------------------------------------
(* The executor under a fair scheduler: the clock advances, the event loop *)
(* runs the consumer whenever it can take a step, and a driver call that   *)
(* does not raise returns.                                                 *)
InitLive == Init /\ graph.post_node = Single

(* the steps of the one consumer task; its position enables one at most *)
Consumer ==
    \/ loop
    \/ wait_for_next_task_yield
    \/ wait_for_next_task_sleep
    \/ wait_for_next_task_wake
    \/ process_task_start
    \/ process_task_finish

Fairness == WF_vars(Tick) /\ WF_vars(Consumer)

SpecLive == InitLive /\ [][Next]_vars /\ Fairness

(* every Protocol of every submitted graph has finished and the optimize   *)
(* that found nothing unstarted has returned                               *)
AllFinished ==
    /\ fresh
    /\ Submitted # {}
    /\ \A p \in Submitted : finished[p] # NoTime

(* C11 as claimed: once an optimize finds no Protocol with started_time    *)
(* unset, loop() returns to its caller instead of staying blocked on the   *)
(* empty await-list.                                                       *)
C11_LoopReturns == [](AllFinished /\ pc # "idle" => <>(pc = "returned"))

----------------------------------------------------------------------------
(* src/src/awaitlist.py with the asyncio.Lock of AwaitList.condition: the  *)
(* await-list used by client tasks and one consumer of wait_for_next_task. *)
(* `async with self.condition` suspends the caller when the lock is held   *)
(* or another coroutine is queued on it. asyncio.wait_for runs             *)
(* condition.wait() in a task of its own where the interpreter's wait_for  *)
(* wraps its argument in a task, which then holds the lock from the        *)
(* consumer's `async with` until it starts and from its wake-up until the  *)
(* consumer resumes; elsewhere the wait runs in the consumer itself.       *)

MaxCalls == 3      \* add_task and cancel_task calls of the clients
MaxQueue == 1      \* a client call queues behind MaxQueue waiters at most
MaxId == 2         \* the identifiers the clients pass
MaxAwaitTime == 3  \* the clock of the await-list on its own stops here

(* the contents of the tokens, in the order of the add_task calls *)
Labels == <<"t1", "t2", "t3", "t4", "t5">>
LabelNo(c) == CHOOSE i \in 1..Len(Labels) : Labels[i] = c

Waiter(who, execution_time, content, id) ==
    [who |-> who, execution_time |-> execution_time, content |-> content,
     id |-> id]

ConsumerWaiter == Waiter("consumer", NoTime, "", NoTime)

(* Lock.acquire returns without suspending *)
lock_free == ~lockHeld /\ lockq = <<>>

(* Lock.release has woken the first of the queued coroutines *)
granted == ~Busy /\ ~lockHeld /\ lockq # <<>>

(* Condition.notify_all reaches the consumer only inside condition.wait() *)
notify_all == pc = "sleeping"

(* the wait of condition.wait() runs in a task of its own *)
InnerTask == {TRUE, FALSE}

(* AwaitList.add_task, lines 46-48: the id is that of a pending task *)
id_exists(ts, id) == \E i \in 1..Len(ts) : ts[i].id = id

(* AwaitList.add_task, line 54 *)
add_notifies(n) == n \/ notify_all

(* the token cancel_task deletes, if there is one *)
cancel_found(ts, id) == \E i \in 1..Len(ts) : ts[i].id = id
cancel_victim(ts, id) ==
    ts[Min({i \in 1..Len(ts) : ts[i].id = id})]

(* AwaitList.add_task, lines 49-55, with the lock acquired *)
add_task_locked(w) ==
    /\ tasks' = add_task(tasks, w.execution_time, w.content, w.id)
    /\ notified' = add_notifies(notified)
    /\ UNCHANGED cancelOk

(* AwaitList.cancel_task, lines 67-73, with the lock acquired *)
cancel_task_locked(w) ==
    /\ tasks' = cancel_task(tasks, w.id)
    /\ IF cancel_found(tasks, w.id)
       THEN /\ notified' = (notified \/ notify_all)
            /\ cancelOk' = cancelOk \cup {cancel_victim(tasks, w.id).content}
       ELSE UNCHANGED <<notified, cancelOk>>

(* a client task calls AwaitList.add_task(execution_time, content, id) *)
client_add(execution_time, id) ==
    /\ ~Busy
    /\ clientAdds < MaxCalls
    /\ clientAdds' = clientAdds + 1
    /\ LET w == Waiter("add", execution_time, Labels[clientAdds + 1], id)
       IN  IF id_exists(tasks, id)
           THEN \* ValueError: Task with id already exists
                UNCHANGED <<tasks, notified, lockq, cancelOk>>
           ELSE IF lock_free
                THEN add_task_locked(w) /\ UNCHANGED lockq
                ELSE /\ Len(lockq) < MaxQueue + 1
                     /\ lockq' = Append(lockq, w)
                     /\ UNCHANGED <<tasks, notified, cancelOk>>
    /\ UNCHANGED exvars
    /\ UNCHANGED <<now, graph, protocols, scheduled, started, finished, pc,
                   current, sleepUntil, fresh, lastTok, driverCalls,
                   driverFailed, lockHeld>>

(* a client task calls AwaitList.cancel_task(id) *)
client_cancel(id) ==
    /\ ~Busy
    /\ clientAdds < MaxCalls
    /\ clientAdds' = clientAdds + 1
    /\ LET w == Waiter("cancel", NoTime, "", id)
       IN  IF lock_free
           THEN cancel_task_locked(w) /\ UNCHANGED lockq
           ELSE /\ Len(lockq) < MaxQueue + 1
                /\ lockq' = Append(lockq, w)
                /\ UNCHANGED <<tasks, notified, cancelOk>>
    /\ UNCHANGED exvars
    /\ UNCHANGED <<now, graph, protocols, scheduled, started, finished, pc,
                   current, sleepUntil, fresh, lastTok, driverCalls,
                   driverFailed, lockHeld>>

(* the client call at the head of the lock's queue gets the lock *)
client_resume ==
    /\ granted
    /\ Head(lockq).who \in {"add", "cancel"}
    /\ lockq' = Tail(lockq)
    /\ IF Head(lockq).who = "add"
       THEN add_task_locked(Head(lockq))
       ELSE cancel_task_locked(Head(lockq))
    /\ UNCHANGED exvars
    /\ UNCHANGED <<now, graph, protocols, scheduled, started, finished, pc,
                   current, sleepUntil, fresh, lastTok, driverCalls,
                   driverFailed, clientAdds, lockHeld>>

(* the consumer reaches `async with self.condition` with the queue q:      *)
(* it goes on at position direct, or queues and waits at position queued   *)
acquire(q, direct, queued) ==
    IF q = <<>>
    THEN pc' = direct /\ lockq' = q
    ELSE pc' = queued /\ lockq' = Append(q, ConsumerWaiter)

(* Executor-less consumer: `async for task in wait_for_next_task()` starts *)
next_task_begin ==
    /\ pc = "idle"
    /\ ~lockHeld
    /\ acquire(lockq, "inspect", "q_inspect")
    /\ UNCHANGED exvars
    /\ UNCHANGED <<now, graph, protocols, scheduled, started, finished, tasks,
                   current, sleepUntil, notified, fresh, lastTok, driverCalls,
                   driverFailed, clientAdds, lockHeld, cancelOk>>

(* the consumer, queued on the lock, gets it *)
next_task_granted ==
    /\ granted
    /\ Head(lockq).who = "consumer"
    /\ lockq' = Tail(lockq)
    /\ pc' = CASE pc = "q_inspect" -> "inspect"
               [] pc = "q_wait" -> "wait"
               [] OTHER -> "woken"
    /\ UNCHANGED exvars
    /\ UNCHANGED <<now, graph, protocols, scheduled, started, finished, tasks,
                   current, sleepUntil, notified, fresh, lastTok, driverCalls,
                   driverFailed, clientAdds, lockHeld, cancelOk>>

(* wait_for_next_task, lines 87-102, with the lock: a due head is removed  *)
(* and yielded; else sleep_time is taken from the head and the lock is     *)
(* released and asked for again                                            *)
next_task_inspect ==
    /\ pc = "inspect"
    /\ IF head_due
       THEN /\ current' = Head(tasks)
            /\ tasks' = Tail(tasks)
            /\ pc' = "handed"
            /\ UNCHANGED <<sleepUntil, lockq>>
       ELSE /\ sleepUntil' = IF tasks = <<>> THEN NoTime
                             ELSE Head(tasks).execution_time
            /\ acquire(lockq, "wait", "q_wait")
            /\ UNCHANGED <<current, tasks>>
    /\ UNCHANGED exvars
    /\ UNCHANGED <<now, graph, protocols, scheduled, started, finished,
                   notified, fresh, lastTok, driverCalls, driverFailed,
                   clientAdds, lockHeld, cancelOk>>

(* wait_for_next_task, lines 104-114, with the lock acquired: wait()       *)
(* releases it at once, or with a timeout the task of wait_for does so     *)
(* when it starts                                                          *)
next_task_wait ==
    /\ pc = "wait"
    /\ \E inner \in InnerTask :
          IF inner /\ sleepUntil # NoTime
          THEN pc' = "entering" /\ lockHeld' = TRUE /\ UNCHANGED notified
          ELSE pc' = "sleeping" /\ notified' = FALSE /\ UNCHANGED lockHeld
    /\ UNCHANGED exvars
    /\ UNCHANGED <<now, graph, protocols, scheduled, started, finished, tasks,
                   current, sleepUntil, fresh, lastTok, driverCalls,
                   driverFailed, clientAdds, lockq, cancelOk>>

(* the task of wait_for starts: condition.wait() releases the lock *)
next_task_wait_inner ==
    /\ pc = "entering"
    /\ pc' = "sleeping"
    /\ lockHeld' = FALSE
    /\ notified' = FALSE
    /\ UNCHANGED exvars
    /\ UNCHANGED <<now, graph, protocols, scheduled, started, finished, tasks,
                   current, sleepUntil, fresh, lastTok, driverCalls,
                   driverFailed, clientAdds, lockq, cancelOk>>

(* condition.wait() is over, by notify_all or by the timeout, and asks for *)
(* the lock again                                                          *)
next_task_wake ==
    /\ pc = "sleeping"
    /\ notified \/ (sleepUntil # NoTime /\ sleepUntil <= now)
    /\ ~lockHeld
    /\ acquire(lockq, "woken", "q_wake")
    /\ notified' = FALSE
    /\ UNCHANGED exvars
    /\ UNCHANGED <<now, graph, protocols, scheduled, started, finished, tasks,
                   current, sleepUntil, fresh, lastTok, driverCalls,
                   driverFailed, clientAdds, lockHeld, cancelOk>>

(* condition.wait() has the lock again: the consumer leaves `async with`   *)
(* and asks for the lock at line 87, at once or, when the wait ran in the  *)
(* task of wait_for, when it is resumed                                    *)
next_task_woken ==
    /\ pc = "woken"
    /\ \E inner \in InnerTask :
          IF inner /\ sleepUntil # NoTime
          THEN pc' = "exiting" /\ lockHeld' = TRUE /\ UNCHANGED lockq
          ELSE acquire(lockq, "inspect", "q_inspect") /\ UNCHANGED lockHeld
    /\ UNCHANGED exvars
    /\ UNCHANGED <<now, graph, protocols, scheduled, started, finished, tasks,
                   current, sleepUntil, notified, fresh, lastTok, driverCalls,
                   driverFailed, clientAdds, cancelOk>>

(* the consumer is resumed after wait_for: it releases the lock and asks   *)
(* for it at line 87                                                       *)
next_task_resume ==
    /\ pc = "exiting"
    /\ lockHeld' = FALSE
    /\ acquire(lockq, "inspect", "q_inspect")
    /\ UNCHANGED exvars
    /\ UNCHANGED <<now, graph, protocols, scheduled, started, finished, tasks,
                   current, sleepUntil, notified, fresh, lastTok, driverCalls,
                   driverFailed, clientAdds, cancelOk>>

(* the body of the consumer's `async for` is done with the token *)
next_task_consume ==
    /\ pc = "handed"
    /\ ~lockHeld
    /\ acquire(lockq, "inspect", "q_inspect")
    /\ UNCHANGED exvars
    /\ UNCHANGED <<now, graph, protocols, scheduled, started, finished, tasks,
                   current, sleepUntil, notified, fresh, lastTok, driverCalls,
                   driverFailed, clientAdds, lockHeld, cancelOk>>

(* the execution_time of a new token: in the past or ahead *)
AddTimes == {now - 1, now + 1}

(* the clock of the await-list on its own *)
TickAwait == Tick /\ now < MaxAwaitTime

NextAwait ==
    \/ TickAwait
    \/ \E t \in AddTimes, id \in 1..MaxId : client_add(t, id)
    \/ \E id \in 1..MaxId : client_cancel(id)
    \/ client_resume
    \/ next_task_begin
    \/ next_task_granted
    \/ next_task_inspect
    \/ next_task_wait
    \/ next_task_wait_inner
    \/ next_task_wake
    \/ next_task_woken
    \/ next_task_resume
    \/ next_task_consume

InitAwait == Init /\ graph.post_node = Single

SpecAwait == InitAwait /\ [][NextAwait]_vars

----------------------------------------------------------------------------
(* token a is yielded before token b when both are pending: it is earlier, *)
(* or as early and added before                                            *)
Precedes(a, b) ==
    \/ a.execution_time < b.execution_time
    \/ /\ a.execution_time = b.execution_time
       /\ LabelNo(a.content) < LabelNo(b.content)

(* the step in which wait_for_next_task takes a token off the list *)
Yields == pc = "inspect" /\ pc' = "handed"

(* C12, as amended: whenever wait_for_next_task yields a token, every      *)
(* token still pending has a later execution_time, or the same one and was *)
(* added after it; the yielded sequence is non-decreasing only as long as  *)
(* no token is added with an execution_time before that of a yielded one.  *)
C12_EarliestFirst ==
    [][Yields => \A i \in 1..Len(tasks') : Precedes(current', tasks'[i])]_vars

(* a token is yielded while one with the same execution_time stays behind *)
C12_Witness ==
    /\ pc = "handed"
    /\ tasks # <<>>
    /\ Head(tasks).execution_time = current.execution_time
    /\ lockq = <<>>

(* C12 as claimed: for any interleaving of add, cancel and consumption the *)
(* execution_time of the yielded tokens never decreases.                   *)
C12_Monotonic ==
    [][(Yields /\ current # NoTask)
          => current.execution_time <= current'.execution_time]_vars

(* C13: at the moment a token is removed from the pending list and         *)
(* yielded, the current time is at or after its execution_time.            *)
C13_NotBefore ==
    [][Yields => current'.execution_time <= now']_vars

(* the consumer slept until the token's time and yields it at that time *)
C13_Witness ==
    /\ pc = "handed"
    /\ sleepUntil = current.execution_time
    /\ current.execution_time = now
    /\ tasks # <<>>

(* C14 as claimed: a sleeping consumer that no notification has reached    *)
(* sleeps until the execution_time of the head at the latest: a token      *)
(* added before the sleep target cuts the sleep short.                     *)
C14_Retargeted ==
    (pc = "sleeping" /\ ~notified /\ tasks # <<>>)
    => /\ sleepUntil # NoTime
       /\ sleepUntil <= Head(tasks).execution_time

(* C15: cancel_task(id) removes the pending token with that id and no      *)
(* other, keeps the order of the rest and reports True; without such a     *)
(* token it changes nothing; a token it removed is never pending or        *)
(* yielded again, also when the consumer was sleeping for it.              *)
C15_CancelExact ==
    /\ \A id \in 1..MaxId :
          LET r == cancel_task(tasks, id)
          IN  IF \E i \in 1..Len(tasks) : tasks[i].id = id
              THEN \E k \in 1..Len(tasks) :
                      /\ tasks[k].id = id
                      /\ r = [i \in 1..(Len(tasks) - 1) |->
                                IF i < k THEN tasks[i] ELSE tasks[i + 1]]
              ELSE r = tasks
    /\ \A i \in 1..Len(tasks) : tasks[i].content \notin cancelOk
    /\ current.content \notin cancelOk

(* the head the consumer sleeps for was cancelled, another token is left *)
C15_Witness ==
    /\ pc = "sleeping"
    /\ cancelOk # {}
    /\ sleepUntil # NoTime
    /\ tasks # <<>>
    /\ sleepUntil < Head(tasks).execution_time

(* C16 as claimed: no two pending tokens share an identifier, also when    *)
(* two add_task calls with the same id are in progress at the same time.   *)
C16_UniqueIds ==
    \A i, j \in 1..Len(tasks) : i # j => tasks[i].id # tasks[j].id

----------------------------------------------------------------------------
(* a client's call of Executor.optimize in which the optimizer raises *)
OptimizeFails ==
    /\ call_optimize
    /\ optimize_schedule(protocols, started, finished, now) = {}

(* C17 as claimed: when the optimizer fails during Executor.optimize(),    *)
(* the protocols list, the pre_node of every first-level child, the        *)
(* scheduled, started and finished times, the pending tokens and the       *)
(* stored snapshots are as before the call.                                *)
C17_StateUnchanged ==
    [][OptimizeFails
          => UNCHANGED <<protocols, marged, scheduled, started, finished,
                         tasks, saved>>]_vars

(* the schedule that the solution f puts on the nodes of the submitted     *)
(* graphs, every other node keeping what it had                            *)
Written(f) ==
    LET t0 == get_oldest_time(protocols', started', now')
    IN  \A p \in Protocols :
           scheduled'[p] = IF p \in DOMAIN f THEN t0 + f[p] * Res
                           ELSE scheduled[p]

(* C18: a run of the optimizer either writes the scheduled_time of every   *)
(* Protocol of the submitted graphs from one solution, or it fails and no  *)
(* scheduled_time changes; no step leaves some Protocols with times of a   *)
(* new schedule and others with those of the previous one.                 *)
C18_AllOrNothing ==
    [][\/ scheduled' = scheduled
       \/ \E f \in optimize_schedule(protocols', started', finished', now') :
             /\ DOMAIN f = SeqToSet(protocol_nodes(protocols'))
             /\ Written(f)]_vars

(* the optimizer has failed on two graphs that carry an earlier schedule *)
C18_Witness ==
    /\ raised = "No optimal schedule found."
    /\ Len(protocols) = 2
    /\ \A p \in Submitted : scheduled[p] # NoTime

(* a node of g is a node of a submitted graph *)
Collides(g) ==
    \E i \in 1..Len(protocols) :
        SeqToSet(flatten(g)) \cap SeqToSet(flatten(protocols[i])) # {}

(* C19: add_protocol(p) with p no Start, or with a node that a submitted   *)
(* graph holds already, ends with an error, runs no optimize and leaves    *)
(* the protocols list, the pending tokens and the storage as they were;    *)
(* any other p is appended behind the submitted graphs and optimize runs   *)
(* on the longer list.                                                     *)
C19_Rejects ==
    [][\A g \in Submissions :
          add_protocol(g) =>
             IF g \notin Starts \/ Collides(g)
             THEN /\ raised' \notin {NoError, "No optimal schedule found."}
                  /\ UNCHANGED <<protocols, tasks, saved, scheduled, fresh,
                                 marged>>
             ELSE /\ protocols' = Append(protocols, g)
                  /\ fresh' = (optimize_schedule(protocols', started,
                                                  finished, now) # {})
                  /\ raised' \in {NoError, "No optimal schedule found."}]_vars

(* a second Start was rejected for the node it shares with the first *)
C19_Witness ==
    /\ raised = "Protocol with the same ID already exists"
    /\ Len(protocols) = 1
    /\ \A g \in Starts : Collides(g)
    /\ tasks # <<>>

(* the step in which a driver call raises for the first time *)
DriverRaises == pc = "driver" /\ ~driverFailed /\ driverFailed'

(* C20: when the driver raises inside process_task, the Protocol keeps the *)
(* started_time just written and has no finished_time, optimize is not     *)
(* called (no scheduled_time changes, no token is enqueued, no snapshot is *)
(* written), and the error leaves loop(), which processes no further       *)
(* token.                                                                  *)
C20_DriverError ==
    [][/\ DriverRaises =>
            /\ started[current.content] # NoTime
            /\ finished'[current.content] = NoTime
            /\ UNCHANGED <<started, finished, scheduled, tasks, saved,
                           marged, protocols>>
            /\ raised' # NoError
            /\ pc' = "dead"
       /\ (pc = "dead" /\ driverFailed) =>
            /\ pc' = "dead"
            /\ UNCHANGED <<driverCalls, started, finished>>]_vars

(* the driver has raised for one Protocol while another is still to run *)
C20_Witness ==
    /\ pc = "dead"
    /\ driverFailed
    /\ \E p \in Submitted : Running(p)
    /\ \E p \in Submitted : started[p] = NoTime
    /\ tasks = <<>>
    /\ now > 2

----------------------------------------------------------------------------
(* The snapshots: what a stored file holds, and what decoding gives back   *)

(* every dictionary of an encoded graph, the root's and its descendants'   *)
RECURSIVE dict_nodes(_)
dict_nodes(d) ==
    {d} \cup UNION {dict_nodes(d.post_node[i]) : i \in DOMAIN d.post_node}

(* the Protocol dictionaries a snapshot holds *)
snapshot_protocols(snap) ==
    LET data == json_load(snap.data)
    IN  {d \in UNION {dict_nodes(data[i]) : i \in DOMAIN data} :
            d.node_type = "protocol"}

(* C21 as claimed: when optimize finds no Protocol with started_time       *)
(* unset it persists the state before it returns, so once the last         *)
(* Protocol has finished the newest snapshot was written no earlier than   *)
(* the last finish and holds a finished_time for every Protocol.           *)
C21_FinalPersisted ==
    AllFinished =>
        /\ saved # NoSnapshot
        /\ \A p \in Submitted : saved.key >= finished[p]
        /\ \A d \in snapshot_protocols(saved) :
                "finished_time" \in DOMAIN d

----------------------------------------------------------------------------
(* Resume: the process is restarted and builds its Executor with           *)
(* resume=True, executor.py 36-40                                          *)

(* the TypeError of a call that leaves out a required argument *)
LoadError == "load() missing 1 required positional argument: 'key'"

(* Executor.__init__(..., resume=True) in a new process. Line 37 calls     *)
(* self.json_storage.load() without the key that load(self, key) of        *)
(* json_storage.py 72 requires: the call raises before a file is read, and *)
(* lines 38-40 are not reached. The nodes of the old process are gone; no  *)
(* Executor comes into being.                                              *)
resume ==
    /\ saved # NoSnapshot
    /\ raised # LoadError
    /\ raised' = LoadError
    /\ protocols' = <<>>
    /\ scheduled' = [p \in Protocols |-> NoTime]
    /\ started' = [p \in Protocols |-> NoTime]
    /\ finished' = [p \in Protocols |-> NoTime]
    /\ tasks' = <<>>
    /\ pc' = "dead"
    /\ current' = NoTask
    /\ sleepUntil' = NoTime
    /\ notified' = FALSE
    /\ fresh' = FALSE
    /\ lastTok' = NoTime
    /\ driverFailed' = FALSE
    /\ marged' = {}
    /\ UNCHANGED <<now, graph, driverCalls, clientAdds, awvars, saved>>

(* a run of the executor, ended at any moment by a restart with resume *)
NextResume ==
    \/ raised # LoadError /\ Next
    \/ resume

SpecResume == Init /\ [][NextResume]_vars

(* C22 as claimed: a Protocol that had finished when the newest snapshot   *)
(* was written keeps its started_time and finished_time across a resume    *)
(* from that snapshot.                                                     *)
C22_ResumeKeeps ==
    [][resume =>
        \A p \in Protocols :
            (finished[p] # NoTime /\ finished[p] <= saved.key) =>
                /\ started'[p] = started[p]
                /\ finished'[p] = finished[p]]_vars

----------------------------------------------------------------------------
----------------------------------------------------------------------------
(* C24: after every successful optimize, every started Protocol has        *)
(* scheduled_time = t0 + its observed start offset in whole seconds, t0    *)
(* being the earliest started_time of any Protocol.                        *)
C24_StartedPinned ==
    fresh =>
        \A p \in Submitted :
            started[p] # NoTime =>
                LET t0 == Min({started[q] : q \in
                               {r \in Submitted : started[r] # NoTime}})
                IN  scheduled[p] = t0 + Res * ((started[p] - t0) \div Res)

(* a plan just optimized in which a Protocol started a fraction of a       *)
(* second after a whole-second offset from the earliest start              *)
C24_Witness ==
    /\ fresh
    /\ \E p, q \in Submitted :
          /\ started[q] # NoTime
          /\ started[q] < started[p]
          /\ scheduled[p] < started[p]

----------------------------------------------------------------------------
(* Re-optimizing a plan that no add_protocol and no process_task has       *)
(* touched since the last successful optimize                              *)

(* the graphs on which a second optimize is looked at: a chain, whose      *)
(* optimal schedule is the only one, and two graphs without an order       *)
(* between them                                                            *)
InitReopt == Init /\ graph.post_node \in {Chain, Two}

SpecReopt == InitReopt /\ [][NextCalls]_vars

(* a client calls optimize on a plan that is as the last successful        *)
(* optimize left it, and the call succeeds                                 *)
Reoptimize ==
    /\ fresh
    /\ raised' = NoError
    /\ call_optimize

(* the call leaves every unstarted Protocol its scheduled_time, and a      *)
(* token for the same Protocol at the same execution_time                  *)
SamePlan ==
    /\ \A p \in Submitted : started[p] = NoTime => scheduled'[p] = scheduled[p]
    /\ Len(tasks') = Len(tasks)
    /\ \A i \in 1..Len(tasks) :
          /\ tasks'[i].content = tasks[i].content
          /\ tasks'[i].execution_time = tasks[i].execution_time

(* C25 as claimed: two optimize calls in succession with no change to any  *)
(* graph in between assign the same scheduled_time to every Protocol that  *)
(* has not started and leave a token for the same Protocol with the same   *)
(* execution_time.                                                         *)
C25_Idempotent == [][SamePlan \/ ~Reoptimize]_vars

(* C25 amended: a second call leaves the plan as it was, unless no         *)
(* Protocol has started (the two calls then count from different           *)
(* reference instants) or the constraint model has more than one optimal   *)
(* schedule.                                                               *)
C25_IdempotentPinned ==
    [][\/ SamePlan
       \/ ~Reoptimize
       \/ \A p \in Submitted : started[p] = NoTime
       \/ Cardinality(optimize_schedule(protocols, started, finished,
                                        now)) # 1]_vars

(* a plan with a started and an unstarted Protocol and a single optimal    *)
(* schedule, re-optimized by a client later than every start and finish    *)
C25_Witness ==
    /\ fresh
    /\ saved # NoSnapshot
    /\ saved.key = now
    /\ \E p \in Submitted : started[p] # NoTime
    /\ \A p \in Submitted : started[p] < now /\ finished[p] < now
    /\ \E p \in Submitted : started[p] = NoTime /\ scheduled[p] # NoTime
    /\ tasks # <<>>
    /\ Cardinality(optimize_schedule(protocols, started, finished, now)) = 1

----------------------------------------------------------------------------
(* src/src/protocol.py: building a graph with Node.add and the operator >  *)

MaxAttach == 3      \* attachments made while a graph is built

(* the nodes a client attaches, and the nodes it attaches them to *)
Children == {"A", "B", "D1"}
Receivers == {"S1", "S2"} \cup Children

(* recursion deeper than any tree of MaxAttach attachments: Python gives   *)
(* up a recursion that goes on (RecursionError)                            *)
RecursionLimit == MaxAttach + 2

(* Node.flatten over the post_node lists po, given up at depth k *)
RECURSIVE flatten_upto(_, _, _)
flatten_upto(po, n, k) ==
    IF k = 0 THEN <<n>>
    ELSE <<n>> \o ConcatAll([i \in 1..Len(po[n]) |->
                                flatten_upto(po, po[n][i], k - 1)])

(* Node.top over the pre_node links pre, given up at depth k: the node     *)
(* without pre_node that the links lead to, or "" when there is none       *)
RECURSIVE top_upto(_, _, _)
top_upto(pre, n, k) ==
    IF pre[n] = "" THEN n
    ELSE IF k = 0 THEN ""
    ELSE top_upto(pre, pre[n], k - 1)

(* Node.top *)
top(n) == top_upto(graph.pre_node, n, RecursionLimit)

(* the nodes before anything is attached *)
Detached ==
    [post_node |-> [n \in Nodes |-> <<>>],
     pre_node |-> [n \in Nodes |-> ""],
     flatten |-> [n \in Nodes |-> <<n>>],
     delay |-> [d \in Delays |-> Sec1Start],
     duration |-> [p \in Protocols |-> 1]]

(* the nodes after self.post_node.append(other); other.pre_node = self *)
attached(n, c) ==
    LET po == [graph.post_node EXCEPT ![n] = Append(@, c)]
    IN  [post_node |-> po,
         pre_node |-> [graph.pre_node EXCEPT ![c] = n],
         flatten |-> [m \in Nodes |-> flatten_upto(po, m, RecursionLimit)],
         delay |-> graph.delay,
         duration |-> graph.duration]

(* attachments made so far *)
Attachments ==
    Cardinality({<<n, i>> \in Nodes \X (1..MaxAttach) :
                    i <= Len(post_node(n))})

(* Node.add(other), lines 43-45: nothing is checked *)
add(n, c) ==
    /\ Attachments < MaxAttach
    /\ graph' = attached(n, c)
    /\ raised' = NoError
    /\ UNCHANGED <<now, protocols, scheduled, started, finished, tasks, pc,
                   current, sleepUntil, notified, fresh, lastTok, driverCalls,
                   driverFailed, clientAdds, awvars, marged, saved>>

(* n > c, lines 29-35: add, then return self.top, which recurses without   *)
(* end when the pre_node links from n lead back to n                       *)
gt(n, c) ==
    /\ Attachments < MaxAttach
    /\ graph' = attached(n, c)
    /\ raised' = IF top_upto(graph'.pre_node, n, RecursionLimit) = ""
                 THEN "RecursionError" ELSE NoError
    /\ UNCHANGED <<now, protocols, scheduled, started, finished, tasks, pc,
                   current, sleepUntil, notified, fresh, lastTok, driverCalls,
                   driverFailed, clientAdds, awvars, marged, saved>>

InitGraph ==
    /\ now = 1
    /\ graph = Detached
    /\ protocols = <<>>
    /\ scheduled = [p \in Protocols |-> NoTime]
    /\ started = [p \in Protocols |-> NoTime]
    /\ finished = [p \in Protocols |-> NoTime]
    /\ tasks = <<>>
    /\ pc = "idle"
    /\ current = NoTask
    /\ sleepUntil = NoTime
    /\ notified = FALSE
    /\ fresh = FALSE
    /\ lastTok = NoTime
    /\ driverCalls = [p \in Protocols |-> 0]
    /\ driverFailed = FALSE
    /\ clientAdds = 0
    /\ lockHeld = FALSE
    /\ lockq = <<>>
    /\ cancelOk = {}
    /\ marged = {}
    /\ saved = NoSnapshot
    /\ raised = NoError

NextGraph ==
    \/ \E n \in Receivers, c \in Children : add(n, c)
    \/ \E n \in Receivers, c \in Children : gt(n, c)

SpecGraph == InitGraph /\ [][NextGraph]_vars

(* the identifiers of the rooted tree n belongs to: the nodes that the     *)
(* post_node lists lead to from its top (from n itself when the pre_node   *)
(* links lead to no top)                                                   *)
rooted_tree(n) ==
    LET r == IF top(n) = "" THEN n ELSE top(n)
    IN  SeqToSet(flatten(r))

(* C26 as claimed: an attach of a child whose identifier already occurs in *)
(* the receiver's rooted tree fails with a Cycle error and leaves the      *)
(* post_node lists and pre_node links of all nodes as they were.           *)
C26_CycleRejected ==
    [][\A n \in Receivers, c \in Children :
          ((add(n, c) \/ gt(n, c)) /\ c \in rooted_tree(n)) =>
              /\ raised' = "Cycle"
              /\ graph'.post_node = graph.post_node
              /\ graph'.pre_node = graph.pre_node]_vars

(* C27 as claimed: after any sequence of attachments, every attached node  *)
(* is in the post_node list of exactly one node, once, and that node is    *)
(* the one its pre_node names.                                             *)
C27_SingleParent ==
    \A c \in Children :
        pre_node(c) # "" =>
            /\ Cardinality({<<n, i>> \in Nodes \X (1..MaxAttach) :
                               /\ i <= Len(post_node(n))
                               /\ post_node(n)[i] = c}) = 1
            /\ c \in SeqToSet(post_node(pre_node(c)))

----------------------------------------------------------------------------
(* Decoding a stored graph, protocol.py 280-315 *)

(* the graph below the node n as the process holds it: variant, fields,    *)
(* identifier, times and children of every node                            *)
RECURSIVE node(_)
node(n) ==
    LET children == [i \in 1..Len(post_node(n)) |-> node(post_node(n)[i])]
    IN  IF n \in Protocols
        THEN [node_type |-> node_type(n), post_node |-> children, id |-> n,
              name |-> n, duration |-> duration(n),
              scheduled_time |-> scheduled[n], started_time |-> started[n],
              finished_time |-> finished[n]]
        ELSE IF n \in Delays
        THEN [node_type |-> node_type(n), post_node |-> children, id |-> n,
              duration |-> delays(n).duration,
              from_type |-> delays(n).from_type,
              offset |-> delays(n).offset]
        ELSE [node_type |-> node_type(n), post_node |-> children, id |-> n]

(* plan_from_dict: the children are decoded first and added to a node      *)
(* that from_dict builds from the fields of its own dictionary: name and   *)
(* duration for a Protocol, duration, from_type and offset for a Delay.    *)
(* The node is a new object: it has no identifier of the encoded node      *)
(* ("") and no time.                                                       *)
RECURSIVE plan_from_dict(_)
plan_from_dict(d) ==
    LET children == [i \in DOMAIN d.post_node |->
                        plan_from_dict(d.post_node[i])]
    IN  IF d.node_type = "protocol"
        THEN [node_type |-> d.node_type, post_node |-> children, id |-> "",
              name |-> d.name, duration |-> d.duration,
              scheduled_time |-> NoTime, started_time |-> NoTime,
              finished_time |-> NoTime]
        ELSE IF d.node_type = "delay"
        THEN [node_type |-> d.node_type, post_node |-> children, id |-> "",
              duration |-> d.duration, from_type |-> d.from_type,
              offset |-> d.offset]
        ELSE [node_type |-> d.node_type, post_node |-> children, id |-> ""]

(* C28 as claimed: decoding the encoded form of a submitted graph gives a  *)
(* graph of the same shape with the same variants in the same order and    *)
(* the same fields on every node: name, durations, from_type, offset,      *)
(* identifier and scheduled, started and finished time.                    *)
C28_RoundTrip ==
    \A i \in 1..Len(protocols) :
        plan_from_dict(to_dict(protocols[i])) = node(protocols[i])

----------------------------------------------------------------------------
(* src/src/json_storage.py: a file that is read while it is written. The   *)
(* reader is another thread or process, such as one that resumes.          *)

(* the text that save has to write: the submitted graphs, encoded *)
text_to_write == dump([i \in 1..Len(protocols) |-> to_dict(protocols[i])])

(* a save is under way: the file is open for writing *)
writing == saved # NoSnapshot /\ saved.data # text_to_write

(* save, lines 56-66: open(filepath, "w") creates the file or empties it *)
save_open ==
    /\ ~writing
    /\ saved' = [key |-> now, data |-> <<>>]
    /\ raised' = NoError
    /\ UNCHANGED <<now, graph, protocols, scheduled, started, finished,
                   tasks, pc, current, sleepUntil, notified, fresh, lastTok,
                   driverCalls, driverFailed, clientAdds, awvars, marged>>

(* save, lines 66-67: json.dump writes the text piece by piece into the    *)
(* buffer of the file, which reaches the file system when the buffer is    *)
(* full and when the file is closed: some more of the text is in the file  *)
save_write ==
    /\ writing
    /\ \E k \in (Len(saved.data) + 1)..Len(text_to_write) :
          saved' = [saved EXCEPT !.data = SubSeq(text_to_write, 1, k)]
    /\ UNCHANGED <<now, graph, protocols, scheduled, started, finished,
                   tasks, pc, current, sleepUntil, notified, fresh, lastTok,
                   driverCalls, driverFailed, clientAdds, awvars, marged,
                   raised>>

(* load(key), lines 72-80: open the file and json.load what it holds *)
load ==
    /\ saved # NoSnapshot
    /\ raised' = IF well_formed(saved.data) THEN NoError
                 ELSE "JSONDecodeError"
    /\ UNCHANGED <<now, graph, protocols, scheduled, started, finished,
                   tasks, pc, current, sleepUntil, notified, fresh, lastTok,
                   driverCalls, driverFailed, clientAdds, awvars, marged,
                   saved>>

(* the graphs an executor holds when it saves *)
InitStorage ==
    /\ now = 1
    /\ graph \in Worlds
    /\ protocols \in {<<>>, <<"S1">>, <<"S2">>, <<"S1", "S2">>,
                       <<"S2", "S1">>}
    /\ scheduled = [p \in Protocols |-> NoTime]
    /\ started = [p \in Protocols |-> NoTime]
    /\ finished = [p \in Protocols |-> NoTime]
    /\ tasks = <<>>
    /\ pc = "idle"
    /\ current = NoTask
    /\ sleepUntil = NoTime
    /\ notified = FALSE
    /\ fresh = FALSE
    /\ lastTok = NoTime
    /\ driverCalls = [p \in Protocols |-> 0]
    /\ driverFailed = FALSE
    /\ clientAdds = 0
    /\ lockHeld = FALSE
    /\ lockq = <<>>
    /\ cancelOk = {}
    /\ marged = {}
    /\ saved = NoSnapshot
    /\ raised = NoError

NextStorage == save_open \/ save_write \/ load


SpecStorage == InitStorage /\ [][NextStorage]_vars

(* C29 as claimed: a load that falls between the opening and the closing   *)
(* of the file by a save of the same key does not come upon a part of the  *)
(* text: it returns a whole object, the earlier one or the new one.        *)
C29_NoTornRead ==
    [][(load /\ writing) =>
          /\ well_formed(saved.data)
          /\ raised' = NoError]_vars

----------------------------------------------------------------------------
(* Executor.optimize on graphs without an unstarted Protocol *)

(* a step in which Executor.optimize runs and finds no Protocol with       *)
(* started_time unset: called by a client, by add_protocol for a Start     *)
(* without post_node, or by process_task after the last finish             *)
OptimizeNothingLeft ==
    /\ unstarted(protocols', started) = <<>>
    /\ \/ call_optimize
       \/ process_task_finish
       \/ \E g \in NewStarts : add_protocol(g) /\ protocols' # protocols

(* C30 as claimed: optimize succeeds without enqueuing a token when the    *)
(* combined graph has no unstarted Protocol, and leaves the scheduled,     *)
(* started and finished time of every node as it was.                      *)
C30_NoOp ==
    [][OptimizeNothingLeft =>
          /\ raised' = NoError
          /\ tasks' = <<>>
          /\ scheduled' = scheduled
          /\ started' = started
          /\ \A p \in Protocols :
                finished[p] # NoTime => finished'[p] = finished[p]]_vars

----------------------------------------------------------------------------
(* Delays in the plan a successful optimize leaves                         *)

(* the instant the plan takes for the finish of P: the observed finish in  *)
(* whole seconds from the earliest start when P has finished, else its     *)
(* start in the plan plus its declared duration                            *)
PlanFinish(P) ==
    IF finished[P] # NoTime
    THEN LET t0 == get_oldest_time(protocols, started, now)
         IN  seconds_to_time(time_to_seconds(finished[P], t0), t0)
    ELSE scheduled[P] + duration(P) * Res

(* C31 as claimed: after every successful optimize, a Protocol C that      *)
(* follows a Delay whose parent is a Protocol P is not scheduled to start  *)
(* before P finishes, also when duration + offset of the Delay is          *)
(* negative, and then (C.start - P.finish) - (duration + offset) > 0.      *)
C31_AfterParent ==
    fresh =>
        \A d \in SeqToSet(delay_nodes(protocols)) :
            \A i \in 1..Len(post_node(d)) :
                LET C == post_node(d)[i]
                    P == pre_node(d)
                    target == (delays(d).duration + delays(d).offset) * Res
                IN  (P \in Protocols /\ started[C] = NoTime) =>
                        /\ PlanFinish(P) <= scheduled[C]
                        /\ target < 0 =>
                              (scheduled[C] - PlanFinish(P)) - target > 0

(* C32 as claimed: for a Delay whose parent is a Start and whose successor *)
(* is a Protocol C, every successful optimize leaves C.scheduled_time - t0 *)
(* at least duration + offset and at most duration + offset + 2 * duration *)
(* of the Delay, t0 being the reference instant of that optimize.          *)
C32_StartDelay ==
    [][scheduled' # scheduled =>
          \A d \in SeqToSet(delay_nodes(protocols')) :
              \A i \in 1..Len(post_node(d)) :
                  LET C == post_node(d)[i]
                      t0 == get_oldest_time(protocols', started', now')
                      target == delays(d).duration + delays(d).offset
                      gap == scheduled'[C] - t0
                  IN  (pre_node(d) \in Starts /\ started'[C] = NoTime) =>
                          /\ target * Res <= gap
                          /\ gap <= (target + 2 * delays(d).duration) * Res]_vars

----------------------------------------------------------------------------
(* The example of the optimizer: Start > A > [B, Delay > C], planned once. *)

MaxDuration == 2

(* S1 > A > [B, D1] and D1 > X, with X in the place of the example's C *)
Example ==
    [n \in Nodes |->
        CASE n = "S1" -> <<"A">>
          [] n = "A"  -> <<"B", "D1">>
          [] n = "D1" -> <<"X">>
          [] OTHER    -> <<>>]

Sec5Finish == [duration |-> 5, from_type |-> "FINISH", offset |-> 0]

(* A(1 s), B(2 s), C(2 s) and Delay(5 s, FINISH, 0) *)
ExampleWorld == WorldOf(Example, Sec5Finish, ("A" :> 1) @@ ("B" :> 2) @@ ("X" :> 2))

PlanWorlds ==
    { WorldOf(Example, f, durs) :
        f \in DelayFields \cup {Sec5Finish},
        durs \in [Protocols -> 1..MaxDuration] }

InitPlan ==
    /\ graph \in PlanWorlds
    /\ InitExecutor

(* one add_protocol of the example graph on an empty Executor *)
NextPlan == add_protocol("S1")

SpecPlan == InitPlan /\ [][NextPlan]_vars

(* offset in seconds from the reference instant, which is the instant of   *)
(* the call while no Protocol has started                                  *)
Offset(p) == (scheduled[p] - now) \div Res

(* C33 as claimed: every optimal schedule of the example has A at offset   *)
(* 0, B at offset 1 and C at offset 6, the Delay's slack being 0.          *)
C33_Example ==
    (graph = ExampleWorld /\ fresh) =>
        /\ Offset("A") = 0
        /\ Offset("B") = 1
        /\ Offset("X") = 6
        /\ Offset("X") - (Offset("A") + duration("A")) - 5 = 0

(* C33 amended: every optimal schedule of the example has A at offset 0    *)
(* and C at offset 6 with slack 0, and B at an offset from 1 to 4, after   *)
(* A's finish and finished by C's start.                                   *)
C33_ExampleFree ==
    (graph = ExampleWorld /\ fresh) =>
        /\ Offset("A") = 0
        /\ Offset("B") \in 1..4
        /\ Offset("X") = 6
        /\ Offset("X") - (Offset("A") + duration("A")) - 5 = 0

C33_Witness ==
    /\ graph = ExampleWorld
    /\ fresh
    /\ raised = NoError
    /\ Offset("B") = 1

(* a horizon no observed time and no plan of the model reaches, in seconds *)
Unbounded(prots) == sum_durations(prots) + MaxTime + 1

(* C34 as claimed: in every state the executor reaches, if the constraints *)
(* with the observed starts and finishes can be met with unbounded time    *)
(* variables, they can be met within the horizon, so that re-optimizing    *)
(* after a Protocol finished later than declared does not fail.            *)
C34_Horizon ==
    LET ps == protocol_nodes(protocols)
        t0 == get_oldest_time(protocols, started, now)
    IN  Assignments(ps, Len(ps), started, finished, t0,
                    Unbounded(protocols)) # {}
            => optimize_schedule(protocols, started, finished, now) # {}

----------------------------------------------------------------------------
(* What a successful optimize leaves of the submitted graphs               *)

(* a step in which Executor.optimize runs to its end *)
OptimizeReturns ==
    /\ fresh'
    /\ raised' = NoError
    /\ \/ process_task_finish
       \/ \E g \in NewStarts : add_protocol(g) /\ protocols' # protocols

(* the graphs, the links of the first-level children, the members of       *)
(* protocols, the roots of a snapshot and the observed times after the step *)
StructureKept ==
    /\ graph' = graph
    /\ marged' = {}
    /\ \A i \in 1..Len(protocols') :
          /\ protocols'[i] \in Starts
          /\ protocols'[i] \notin marged'
    /\ saved' # saved =>
          /\ well_formed(saved'.data)
          /\ json_load(saved'.data)
                = [i \in 1..Len(protocols') |-> to_dict(protocols'[i])]
    /\ started' = started
    /\ \A p \in Protocols :
          finished'[p] # finished[p] => (pc = "driver" /\ p = current.content)

(* C35: a successful optimize leaves every Start with the same children in *)
(* the same order, every first-level child linked to its own Start, only   *)
(* submitted Starts in protocols and as the roots of the snapshot, and no  *)
(* started_time or finished_time changed (process_task's own write of the  *)
(* finished_time of the Protocol it ran precedes the call).                *)
C35_StructureKept == [][StructureKept \/ ~OptimizeReturns]_vars

C35_Witness ==
    /\ fresh
    /\ raised = NoError
    /\ marged = {}
    /\ Len(protocols) = 2
    /\ saved # NoSnapshot
    /\ Len(json_load(saved.data)) = 2
    /\ \E p \in Protocols : finished[p] # NoTime

----------------------------------------------------------------------------
(* process_task for a token that names no Protocol                         *)

(* process_task is entered with a token whose content is the identifier of *)
(* no Protocol of a submitted graph                                        *)
UnknownToken ==
    /\ pc = "yielded"
    /\ pc' # "yielded"
    /\ current.content \notin Submitted

(* C36: process_task with a token that matches no Protocol of any          *)
(* submitted graph raises before anything is changed: no started_time or   *)
(* finished_time is written, the driver is not invoked and optimize is not *)
(* called.                                                                 *)
C36_UnknownToken ==
    [][UnknownToken =>
          /\ raised' = "No protocol found for task"
          /\ started' = started
          /\ finished' = finished
          /\ driverCalls' = driverCalls
          /\ pc' # "driver"
          /\ UNCHANGED <<scheduled, tasks, lastTok, marged, saved>>]_vars

C36_Witness ==
    /\ raised = "No protocol found for task"
    /\ protocols # <<>>
    /\ \A p \in Protocols : started[p] = NoTime /\ driverCalls[p] = 0

----------------------------------------------------------------------------
(* The await-list under a fair scheduler: the clock advances, the event    *)
(* loop runs the consumer whenever it can take a step and hands the lock   *)
(* to the call that is first in its queue. Clients need not call again.    *)

(* the steps of the consumer of wait_for_next_task *)
ConsumerAwait ==
    \/ next_task_begin
    \/ next_task_granted
    \/ next_task_inspect
    \/ next_task_wait
    \/ next_task_wait_inner
    \/ next_task_wake
    \/ next_task_woken
    \/ next_task_resume
    \/ next_task_consume

FairAwait ==
    /\ WF_vars(TickAwait)
    /\ WF_vars(ConsumerAwait)
    /\ WF_vars(client_resume)

SpecAwaitLive == InitAwait /\ [][NextAwait]_vars /\ FairAwait

(* the token with content c is pending and falls due while the clock runs *)
PendingDue(c) ==
    \E i \in 1..Len(tasks) :
        tasks[i].content = c /\ tasks[i].execution_time <= MaxAwaitTime

(* C37 as claimed: with a consumer that keeps iterating, every token that  *)
(* is added and never cancelled is eventually yielded: a pending token     *)
(* does not stay pending for ever.                                         *)
C37_NoLostWakeup ==
    \A n \in 1..MaxCalls : PendingDue(Labels[n]) ~> ~PendingDue(Labels[n])

----------------------------------------------------------------------------
(* add_protocol that raises                                                *)

(* C40 as claimed: whenever add_protocol(p) raises, be it the rejection of *)
(* p or the failure of the optimize it calls, p is not a member of         *)
(* protocols afterwards.                                                   *)
C40_FailedNotKept ==
    [][\A g \in NewStarts :
          (add_protocol(g) /\ raised' # NoError) =>
              g \notin SeqToSet(protocols')]_vars

----------------------------------------------------------------------------
(* src/src/executor.py over the lock of its await-list. Executor.optimize  *)
(* awaits cancel_task and add_task, and each of them suspends its caller   *)
(* at `async with self.condition` when the lock is held or has waiters;    *)
(* nothing else in optimize suspends. The consumer is the task of          *)
(* Executor.loop; add_protocol and optimize run in the tasks of their      *)
(* callers.                                                                *)

NoCall == [who |-> "none"]

(* a call of optimize to the await-list that waits for the lock: the       *)
(* caller is "loop" or a client task, prots the graphs its marged_protocol *)
(* holds, index the position of its `for task in tasks`                    *)
OptimizeCall(caller, prots, call, index, execution_time, content) ==
    [who |-> "optimize", caller |-> caller, protocols |-> prots,
     call |-> call, index |-> index, execution_time |-> execution_time,
     content |-> content, id |-> NoTime]

(* Executor.optimize, lines 82-101, at index i of its loop over the list   *)
(* ts: the call it awaits next, if any                                     *)
next_call(caller, prots, ts, i, sch, st) ==
    IF i <= Len(ts)
    THEN [OptimizeCall(caller, prots, "cancel", i, NoTime, "")
            EXCEPT !.id = ts[i].id]
    ELSE IF unstarted(prots, st) = <<>>
    THEN NoCall
    ELSE LET np == next_protocol(prots, sch, st)
         IN  OptimizeCall(caller, prots, "add", i, sch[np], np)

(* optimize has returned: a client task ends, the consumer leaves          *)
(* process_task and asks for the lock at line 87 of wait_for_next_task     *)
optimize_returns(caller, q) ==
    IF caller = "loop"
    THEN acquire(q, "inspect", "q_inspect")
    ELSE pc' = pc /\ lockq' = q

(* optimize goes on at index i of its loop, with the list ts and the       *)
(* lock's queue q, up to its next suspension or to its end; all is         *)
(* self.protocols                                                          *)
optimize_from(caller, prots, ts, i, q, sch, st, ntf, all) ==
    LET c == next_call(caller, prots, ts, i, sch, st)
        cancelled == cancel_loop(ts, i)
    IN  IF c.who = "none"
        THEN /\ tasks' = ts
             /\ notified' = ntf
             /\ UNCHANGED saved
             /\ optimize_returns(caller, q)
        ELSE IF q = <<>> /\ ~lockHeld
        THEN \* no call suspends: the rest of optimize runs at once
             /\ IF unstarted(prots, st) = <<>>
                THEN /\ tasks' = cancelled
                     /\ notified' = (ntf \/ (notify_all /\ cancelled # ts))
                     /\ UNCHANGED saved
                ELSE LET np == next_protocol(prots, sch, st)
                     IN  /\ tasks' = add_task(cancelled, sch[np], np,
                                              uuid4(cancelled, current))
                         /\ notified' = (ntf \/ notify_all)
                         /\ saved' = save([k \in 1..Len(all) |->
                                              to_dict(all[k])], now)
             /\ optimize_returns(caller, q)
        ELSE /\ tasks' = ts
             /\ notified' = ntf
             /\ UNCHANGED saved
             /\ lockq' = Append(q, c)
             /\ pc' = IF caller = "loop" THEN "optimizing" ELSE pc

(* Executor.optimize from its first line to its first suspension *)
optimize_begin(caller, prots, st, fi) ==
    LET sols == optimize_schedule(prots, st, fi, now)
    IN  IF sols = {}
        THEN /\ raised' = "No optimal schedule found."
             /\ pc' = IF caller = "loop" THEN "dead" ELSE pc
             /\ UNCHANGED <<scheduled, tasks, notified, saved, lockq>>
        ELSE \E f \in sols :
             LET sch == write_schedule(prots, scheduled, st, now, f)
             IN  /\ scheduled' = sch
                 /\ raised' = NoError
                 /\ optimize_from(caller, prots, tasks, 1, lockq, sch, st,
                                  notified, prots)

(* a client task calls Executor.add_protocol(g) *)
add_protocol_task(g) ==
    /\ ~Busy
    /\ pc # "handed"
    /\ g \in NewStarts
    /\ ~ids_collide(protocols, g)
    /\ protocols' = Append(protocols, g)
    /\ optimize_begin(g, Append(protocols, g), started, finished)
    /\ UNCHANGED <<now, graph, started, finished, current, sleepUntil, fresh,
                   lastTok, driverCalls, driverFailed, clientAdds, lockHeld,
                   cancelOk, marged>>

(* a client task calls executor.await_list.cancel_task with an id that no  *)
(* token carries: the call changes nothing and takes its turn at the lock  *)
client_cancel_unknown ==
    /\ pc # "handed"
    /\ client_cancel(0)

(* Executor.process_task up to the driver call, entered from `async for`   *)
(* with the token wait_for_next_task has handed over                       *)
process_task_driver ==
    /\ pc = "handed"
    /\ current.content \in SeqToSet(protocol_nodes(protocols))
    /\ started' = [started EXCEPT ![current.content] = now]
    /\ driverCalls' = [driverCalls EXCEPT ![current.content] = @ + 1]
    /\ pc' = "driver"
    /\ UNCHANGED <<now, graph, protocols, scheduled, finished, tasks, current,
                   sleepUntil, notified, fresh, lastTok, driverFailed,
                   clientAdds, awvars, exvars>>

(* the driver returns: process_task sets finished_time and calls optimize *)
process_task_optimize ==
    /\ pc = "driver"
    /\ LET fi == [finished EXCEPT ![current.content] = now]
       IN  /\ finished' = fi
           /\ optimize_begin("loop", protocols, started, fi)
    /\ UNCHANGED <<now, graph, protocols, started, current, sleepUntil, fresh,
                   lastTok, driverCalls, driverFailed, clientAdds, lockHeld,
                   cancelOk, marged>>

(* the call of optimize at the head of the lock's queue gets the lock,     *)
(* runs, and optimize goes on                                              *)
optimize_granted ==
    /\ granted
    /\ Head(lockq).who = "optimize"
    /\ LET w == Head(lockq)
           q == Tail(lockq)
       IN  IF w.call = "cancel"
           THEN optimize_from(w.caller, w.protocols, cancel_task(tasks, w.id),
                              w.index + 1, q, scheduled, started,
                              notified \/ (cancel_found(tasks, w.id)
                                             /\ notify_all),
                              protocols)
           ELSE /\ tasks' = add_task(tasks, w.execution_time, w.content,
                                     uuid4(tasks, current))
                /\ notified' = (notified \/ notify_all)
                /\ saved' = save([k \in 1..Len(protocols) |->
                                     to_dict(protocols[k])], now)
                /\ optimize_returns(w.caller, q)
    /\ UNCHANGED <<now, graph, protocols, scheduled, started, finished,
                   current, sleepUntil, fresh, lastTok, driverCalls,
                   driverFailed, clientAdds, lockHeld, cancelOk, marged,
                   raised>>

NextOverlap ==
    \/ Tick
    \/ \E g \in Starts : add_protocol_task(g)
    \/ client_cancel_unknown
    \/ client_resume
    \/ next_task_begin
    \/ next_task_granted
    \/ next_task_inspect
    \/ next_task_wait
    \/ next_task_wait_inner
    \/ next_task_wake
    \/ next_task_woken
    \/ next_task_resume
    \/ process_task_driver
    \/ process_task_optimize
    \/ optimize_granted

InitOverlap == Init /\ graph = World(Full, Sec1Finish)

SpecOverlap == InitOverlap /\ [][NextOverlap]_vars

(* a call of optimize waits for the lock *)
OptimizeSuspended == \E k \in 1..Len(lockq) : lockq[k].who = "optimize"

(* C39 as claimed: when optimize invocations overlap at the suspension     *)
(* points of cancel_task and add_task, the await-list holds at most one    *)
(* pending token once they have completed, and no Protocol ever has two    *)
(* pending tokens.                                                         *)
C39_OneToken ==
    /\ ~OptimizeSuspended => Len(tasks) <= 1
    /\ \A i, j \in 1..Len(tasks) :
          tasks[i].content = tasks[j].content => i = j

----------------------------------------------------------------------------
(* The executor over the lock of its await-list under a fair scheduler:    *)
(* the clock advances, the event loop runs the task of loop() whenever it  *)
(* can take a step, and a call that waits for the lock gets it when it is  *)
(* first in the queue. Clients need not call, and whether a driver call    *)
(* returns is left to the driver.                                          *)

ConsumerOverlap ==
    \/ next_task_begin
    \/ next_task_granted
    \/ next_task_inspect
    \/ next_task_wait
    \/ next_task_wait_inner
    \/ next_task_wake
    \/ next_task_woken
    \/ next_task_resume
    \/ process_task_driver

FairOverlap ==
    /\ WF_vars(Tick)
    /\ WF_vars(ConsumerOverlap)
    /\ WF_vars(optimize_granted)
    /\ WF_vars(client_resume)

SpecOverlapLive == InitOverlap /\ [][NextOverlap]_vars /\ FairOverlap

(* every call of the driver returns *)
DriverReturns == []<>(pc # "driver")

(* every call of optimize finds a schedule *)
OptimizeFinds == [](raised = NoError)

(* the clock of the model stopped before the head token fell due *)
ClockOut ==
    /\ now = MaxTime
    /\ tasks # <<>>
    /\ Head(tasks).execution_time > MaxTime

(* C38 as claimed: if every driver call returns and every optimize finds a *)
(* schedule, every Protocol of every submitted graph, also of a graph      *)
(* added while loop() is running, eventually has finished_time set.        *)
C38_AllFinish ==
    (DriverReturns /\ OptimizeFinds)
        => \A p \in Protocols :
               (p \in Submitted) ~> (finished[p] # NoTime \/ ClockOut)

====
